---------------------------- MODULE Spec2Model ----------------------------
(***************************************************************************)
(* A model of the functor_derive procedural macro.                         *)
(*                                                                         *)
(*   derive         functor_derive_lib/src/lib.rs, lines 15-32             *)
(*   generate_impl  functor_derive_lib/src/lib.rs, lines 34-129            *)
(*                                                                         *)
(* The macro's output is modelled as a sequence of impl items, each a      *)
(* record of its header and of the functions it defines.                   *)
(***************************************************************************)
EXTENDS Integers, Sequences, FiniteSets, TLC

VARIABLES
    input,      \* the parsed DeriveInput: [ident, generics, data]
    attr,       \* the Attribute: [kind |-> "Single", param] or [kind |-> "Many", params]
    pc,         \* position of derive: "start", "loop", "done", "aborted", "called"
    idx,        \* number of (functor_param, name_suffix) pairs already consumed by the loop
    tokens,     \* the local TokenStream of derive's Many arm
    output,     \* what the macro hands back to the compiler
    call        \* the last invocation of a generated operation

vars == <<input, attr, pc, idx, tokens, output, call>>

-----------------------------------------------------------------------------
(* Bounds of the model *)

\* longest list of (parameter, suffix) pairs of an Attribute::Many
MaxRequested == 2

\* number of distinct scalar values a field can hold
NumElem == 2

\* longest Vec, VecDeque or HashMap held by a value
MaxVecLen == 1

-----------------------------------------------------------------------------
(* Generic parameters and generic arguments *)

LifetimeParam(id) == [kind |-> "Lifetime", ident |-> id, bounds |-> <<>>]
TypeParam(id, bs) == [kind |-> "Type", ident |-> id, bounds |-> bs]
ConstParam(id) == [kind |-> "Const", ident |-> id, bounds |-> <<>>]

\* Option<Ident>
None == <<>>
Some(x) == <<x>>

Min(S) == CHOOSE x \in S : \A y \in S : x <= y

\* the position found by a first-match-by-identifier that ignores the kind of the parameter
find_param_any_kind(gen_params, functor_param) ==
    LET hits == {i \in DOMAIN gen_params : gen_params[i].ident = functor_param}
    IN  IF hits = {} THEN 0 ELSE Min(hits)

\* lib.rs 39-45: position of the first GenericParam::Type whose ident is
\* functor_param; 0 stands for find_map's None
find_param(gen_params, functor_param) ==
    LET hits == {i \in DOMAIN gen_params :
                    /\ gen_params[i].kind = "Type"
                    /\ gen_params[i].ident = functor_param}
    IN  IF hits = {} THEN 0 ELSE Min(hits)

\* lib.rs 55-69: every generic parameter becomes the generic argument of its kind
source_args_of(gen_params) ==
    [i \in DOMAIN gen_params |-> [kind |-> gen_params[i].kind, ident |-> gen_params[i].ident]]

B_arg == [kind |-> "Type", ident |-> "__B"]

\* the target arguments with the first argument replaced, whatever the target is
target_args_first(source_args, functor_param_idx) ==
    [source_args EXCEPT ![1] = B_arg]

\* lib.rs 72-76: a copy of source_args with `__B` at the position of the mapped parameter
target_args_of(source_args, functor_param_idx) ==
    [source_args EXCEPT ![functor_param_idx] = B_arg]

-----------------------------------------------------------------------------
(* Declared types of fields, as written (syn::Type) *)

Path(name, args) == [t |-> "path", name |-> name, args |-> args, n |-> 0]
Paren(e) == [t |-> "paren", name |-> "", args |-> <<e>>, n |-> 0]
Tuple(cs) == [t |-> "tuple", name |-> "", args |-> cs, n |-> 0]
Array(e, len) == [t |-> "array", name |-> "", args |-> <<e>>, n |-> len]

Ty(name) == Path(name, <<>>)

(* TypeShape: how the target parameter occurs in a declared type *)

Direct == [s |-> "Direct", kind |-> "", cs |-> <<>>, n |-> 0]
Opaque == [s |-> "Opaque", kind |-> "", cs |-> <<>>, n |-> 0]
Marker == [s |-> "Marker", kind |-> "", cs |-> <<>>, n |-> 0]
TupleShape(cs) == [s |-> "Tuple", kind |-> "", cs |-> cs, n |-> 0]
ArrayShape(e, len) == [s |-> "Array", kind |-> "", cs |-> <<e>>, n |-> len]
KnownContainer(kind, e) == [s |-> "KnownContainer", kind |-> kind, cs |-> <<e>>, n |-> 0]

\* the registry of known container shapes: the one-argument containers, whose
\* argument is mapped, and the keyed containers, whose value argument is mapped
SingleArgContainers == {"Option", "Box", "Vec", "VecDeque"}
KeyedContainers == {"HashMap"}

RECURSIVE classify(_, _)
\* the Shape Analyzer: exactly one TypeShape for a declared type and a target parameter
classify(ty, param) ==
    CASE ty.t = "path" /\ ty.args = <<>> /\ ty.name = param -> Direct
      [] ty.t = "paren" -> classify(ty.args[1], param)
      [] ty.t = "tuple" -> TupleShape([i \in DOMAIN ty.args |-> classify(ty.args[i], param)])
      [] ty.t = "array" -> ArrayShape(classify(ty.args[1], param), ty.n)
      [] ty.t = "path" /\ ty.name \in SingleArgContainers /\ Len(ty.args) = 1 ->
            KnownContainer(ty.name, classify(ty.args[1], param))
      [] ty.t = "path" /\ ty.name \in KeyedContainers /\ Len(ty.args) = 2 ->
            KnownContainer(ty.name, classify(ty.args[2], param))
      [] ty.t = "path" /\ ty.name = "PhantomData" /\ ty.args = <<Ty(param)>> -> Marker
      [] OTHER -> Opaque

RECURSIVE contains_param(_, _)
\* whether the parameter's identifier occurs anywhere in the written type
contains_param(ty, param) ==
    \/ ty.t = "path" /\ ty.name = param
    \/ \E i \in DOMAIN ty.args : contains_param(ty.args[i], param)

(* The definition under derive (syn::Data): one variant for a struct *)

Field(name, ty) == [name |-> name, ty |-> ty]
Variant(name, style, fields) == [name |-> name, style |-> style, fields |-> fields]
Struct(fields) == [kind |-> "struct", variants |-> <<Variant("", "named", fields)>>]
Enum(variants) == [kind |-> "enum", variants |-> variants]

\* generate_fmap_body::generate_fmap_body: the reconstruction expression of the
\* definition: a struct literal, or a match with one arm per variant, each field
\* given the expression of its shape
generate_fmap_body(data, def_name, functor_param, is_try) ==
    [def |-> def_name, kind |-> data.kind, is_try |-> is_try,
     arms |-> [v \in DOMAIN data.variants |->
        [name |-> data.variants[v].name,
         style |-> data.variants[v].style,
         fields |-> [k \in DOMAIN data.variants[v].fields |->
            [name |-> data.variants[v].fields[k].name,
             shape |-> classify(data.variants[v].fields[k].ty, functor_param)]]]]]

-----------------------------------------------------------------------------
(* generate_impl: one generation pass for one (functor_param, name_suffix) *)

\* the subject type applied to a list of generic arguments
Applied(def_name, args) == [name |-> def_name, args |-> args]

\* a function of a generated impl block.  by_ref: __f is taken as `&impl Fn`;
\* fallible: __f returns a Result and so does the function; ret: the type inside
\* the declared return type; body: `self.<callee>(&__f)` or the generated body,
\* wrapped in Ok(..) when ok_wrap
Fn(name, bounds, by_ref, fallible, param, ret, body) ==
    [name |-> name, B_bounds |-> bounds, by_ref |-> by_ref, fallible |-> fallible,
     f_arg |-> param, ret |-> ret, body |-> body]

CallSelf(callee) == [kind |-> "call", callee |-> callee, ok_wrap |-> FALSE, expr |-> <<>>]
Body(expr, ok_wrap) == [kind |-> "expr", callee |-> "", ok_wrap |-> ok_wrap, expr |-> <<expr>>]

\* lib.rs 87-99: impl ::functor_derive::Functor<functor_param> for def_name<source_args>
trait_impl(gen_params, def_name, functor_param, source_args, target_args, fmap_body, try_fmap_body) ==
    [kind |-> "trait_impl",
     generics |-> gen_params,
     trait |-> <<"Functor", functor_param>>,
     self_ty |-> Applied(def_name, source_args),
     assoc_target |-> <<Applied(def_name, target_args)>>,
     fns |-> <<
        Fn("fmap_ref", <<>>, TRUE, FALSE, functor_param,
           Applied(def_name, target_args), Body(fmap_body, FALSE)),
        Fn("try_fmap_ref", <<>>, TRUE, TRUE, functor_param,
           Applied(def_name, target_args), Body(try_fmap_body, TRUE)) >>]

\* lib.rs 103: name_suffix.map(|s| format!("_{s}")).unwrap_or_default()
suffix_of(name_suffix) == IF name_suffix = None THEN "" ELSE "_" \o name_suffix[1]

\* lib.rs 101-127: impl def_name<source_args> with the four public functions
inherent_impl(gen_params, def_name, functor_param, source_args, target_args, fmap_body, try_fmap_body, bounds, name_suffix) ==
    LET suffix == suffix_of(name_suffix)
        fmap == "fmap" \o suffix
        fmap_ref == "fmap_ref" \o suffix
        try_fmap == "try_fmap" \o suffix
        try_fmap_ref == "try_fmap_ref" \o suffix
    IN  [kind |-> "inherent_impl",
         generics |-> gen_params,
         trait |-> <<>>,
         self_ty |-> Applied(def_name, source_args),
         assoc_target |-> <<>>,
         fns |-> <<
            Fn(fmap, bounds, FALSE, FALSE, functor_param,
               Applied(def_name, target_args), CallSelf("fmap_ref")),
            Fn(fmap_ref, bounds, TRUE, FALSE, functor_param,
               Applied(def_name, target_args), Body(fmap_body, FALSE)),
            Fn(try_fmap, bounds, FALSE, TRUE, functor_param,
               Applied(def_name, target_args), CallSelf("try_fmap_ref")),
            Fn(try_fmap_ref, bounds, TRUE, TRUE, functor_param,
               Applied(def_name, target_args), Body(try_fmap_body, TRUE)) >>]

\* lib.rs 47-51: the message of abort_call_site!, as the pieces of its format
\* string around the two arguments (the quotes around the arguments are part of
\* the neighbouring pieces and are left out)
Diagnostic(functor_param, def_name) ==
    <<"The generic parameter ", functor_param,
      " could not be found in the definition of ", def_name, ".">>

\* the parameter whose occurrences a body is generated for, taken to be the
\* first declared type parameter instead of the requested one
first_type_param(gen_params) ==
    gen_params[Min({i \in DOMAIN gen_params : gen_params[i].kind = "Type"})].ident

fmap_body_first_param(inp, def_name, functor_param) ==
    generate_fmap_body(inp.data, def_name, first_type_param(inp.generics), FALSE)

\* lib.rs 79-80
fmap_body_of(inp, def_name, functor_param) ==
    generate_fmap_body(inp.data, def_name, functor_param, FALSE)

try_fmap_body_first_param(inp, def_name, functor_param) ==
    generate_fmap_body(inp.data, def_name, first_type_param(inp.generics), TRUE)

\* the body of the fallible transform generated in the total mode
try_fmap_body_total(inp, def_name, functor_param) ==
    generate_fmap_body(inp.data, def_name, functor_param, FALSE)

\* lib.rs 81-82
try_fmap_body_of(inp, def_name, functor_param) ==
    generate_fmap_body(inp.data, def_name, functor_param, TRUE)

\* the choice of the form by the bounds alone
use_trait_form_bounds_only(functor_param_type, name_suffix) ==
    functor_param_type.bounds = <<>>

\* lib.rs 86: functor_param_type.bounds.is_empty() && name_suffix.is_none()
use_trait_form(functor_param_type, name_suffix) ==
    functor_param_type.bounds = <<>> /\ name_suffix = None

\* lib.rs 34-129.  The result is [abort |-> TRUE, diag] when the parameter is not
\* found, and [abort |-> FALSE, item] otherwise.
generate_impl(inp, def_name, functor_param, name_suffix) ==
    LET gen_params == inp.generics
        functor_param_idx == find_param(gen_params, functor_param)
    IN  IF functor_param_idx = 0
        THEN [abort |-> TRUE, diag |-> Diagnostic(functor_param, def_name), item |-> <<>>]
        ELSE
          LET functor_param_type == gen_params[functor_param_idx]
              source_args == source_args_of(gen_params)
              target_args == target_args_of(source_args, functor_param_idx)
              fmap_body == fmap_body_of(inp, def_name, functor_param)
              try_fmap_body == try_fmap_body_of(inp, def_name, functor_param)
          IN  [abort |-> FALSE, diag |-> <<>>, item |-> <<
                IF use_trait_form(functor_param_type, name_suffix)
                THEN trait_impl(gen_params, def_name, functor_param, source_args,
                                target_args, fmap_body, try_fmap_body)
                ELSE inherent_impl(gen_params, def_name, functor_param, source_args,
                                   target_args, fmap_body, try_fmap_body,
                                   functor_param_type.bounds, name_suffix) >>]

-----------------------------------------------------------------------------
(* Running the generated code: values, the supplied function, evaluation *)

\* concatenation of the sequences of a sequence
RECURSIVE Flatten(_)
Flatten(ss) == IF ss = <<>> THEN <<>> ELSE Head(ss) \o Flatten(Tail(ss))

RECURSIVE fmap_expr(_, _, _)
RECURSIVE fmap_elems(_, _, _, _)
\* the total-mode expression of a shape, evaluated on the value v with the function
\* f: the new value and the arguments f was applied to, in the order of application
fmap_expr(shape, v, f) ==
    CASE shape.s = "Direct" -> [val |-> f[v], calls |-> <<v>>]
      [] shape.s = "Opaque" -> [val |-> v, calls |-> <<>>]
      [] shape.s = "Marker" -> [val |-> <<>>, calls |-> <<>>]
      [] shape.s = "Tuple" -> fmap_elems(shape.cs, v, f, 1)
      [] shape.s = "Array" -> fmap_elems([i \in 1..shape.n |-> shape.cs[1]], v, f, 1)
      [] shape.s = "KnownContainer" /\ shape.kind \in KeyedContainers ->
            fmap_elems([i \in DOMAIN v |-> TupleShape(<<Opaque, shape.cs[1]>>)], v, f, 1)
      [] shape.s = "KnownContainer" /\ shape.kind \notin KeyedContainers ->
            fmap_elems([i \in DOMAIN v |-> shape.cs[1]], v, f, 1)

\* the components i.. of vs but the last one
fmap_elems_drop_last(shapes, vs, f, i) ==
    IF i >= Len(vs) THEN [val |-> <<>>, calls |-> <<>>]
    ELSE LET h == fmap_expr(shapes[i], vs[i], f)
             t == fmap_elems(shapes, vs, f, i + 1)
         IN  [val |-> <<h.val>> \o t.val, calls |-> h.calls \o t.calls]

\* the components i.. of vs, each with its own shape, left to right
fmap_elems(shapes, vs, f, i) ==
    IF i > Len(vs) THEN [val |-> <<>>, calls |-> <<>>]
    ELSE LET h == fmap_expr(shapes[i], vs[i], f)
             t == fmap_elems(shapes, vs, f, i + 1)
         IN  [val |-> <<h.val>> \o t.val, calls |-> h.calls \o t.calls]

RECURSIVE try_fmap_expr(_, _, _)
RECURSIVE try_fmap_elems(_, _, _, _)
\* the fallible-mode expression of a shape.  f returns [ok, v]; a failure leaves the
\* expression at once (the ? operator): ok is FALSE and val is f's error
try_fmap_expr(shape, v, f) ==
    CASE shape.s = "Direct" -> [ok |-> f[v].ok, val |-> f[v].v, calls |-> <<v>>]
      [] shape.s = "Opaque" -> [ok |-> TRUE, val |-> v, calls |-> <<>>]
      [] shape.s = "Marker" -> [ok |-> TRUE, val |-> <<>>, calls |-> <<>>]
      [] shape.s = "Tuple" -> try_fmap_elems(shape.cs, v, f, 1)
      [] shape.s = "Array" -> try_fmap_elems([i \in 1..shape.n |-> shape.cs[1]], v, f, 1)
      [] shape.s = "KnownContainer" /\ shape.kind \in KeyedContainers ->
            try_fmap_elems([i \in DOMAIN v |-> TupleShape(<<Opaque, shape.cs[1]>>)], v, f, 1)
      [] shape.s = "KnownContainer" /\ shape.kind \notin KeyedContainers ->
            try_fmap_elems([i \in DOMAIN v |-> shape.cs[1]], v, f, 1)

\* the components i.. of vs, left to right, up to the first failure
try_fmap_elems(shapes, vs, f, i) ==
    IF i > Len(vs) THEN [ok |-> TRUE, val |-> <<>>, calls |-> <<>>]
    ELSE LET h == try_fmap_expr(shapes[i], vs[i], f)
         IN  IF ~h.ok THEN h
             ELSE LET t == try_fmap_elems(shapes, vs, f, i + 1)
                  IN  IF t.ok
                      THEN [ok |-> TRUE, val |-> <<h.val>> \o t.val,
                            calls |-> h.calls \o t.calls]
                      ELSE [ok |-> FALSE, val |-> t.val, calls |-> h.calls \o t.calls]

\* a value of the definition: the index of its variant and the values of that
\* variant's fields, in declaration order
Value(variant, fields) == [variant |-> variant, fields |-> fields]

\* the generated body evaluated on self: the arm of self's variant rebuilds that
\* variant from the expressions of its fields, in declaration order
eval_body(body, self, f) ==
    LET arm == body.arms[self.variant]
        shapes == [k \in DOMAIN arm.fields |-> arm.fields[k].shape]
    IN  IF body.is_try
        THEN LET r == try_fmap_elems(shapes, self.fields, f, 1)
             IN  [early |-> ~r.ok,
                  val |-> IF r.ok THEN Value(self.variant, r.val) ELSE r.val,
                  calls |-> r.calls]
        ELSE LET r == fmap_elems(shapes, self.fields, f, 1)
             IN  [early |-> FALSE, val |-> Value(self.variant, r.val), calls |-> r.calls]

\* all functions of the emitted impl blocks, in the order of emission
AllFns(items) == Flatten([i \in DOMAIN items |-> items[i].fns])

Defined(items, name) == \E i \in DOMAIN AllFns(items) : AllFns(items)[i].name = name

Lookup(items, name) ==
    LET fns == AllFns(items)
    IN  fns[Min({i \in DOMAIN fns : fns[i].name = name})]

\* the emitted code compiles only if every method it calls on self is a method
\* the emitted code defines (nothing else of the crate provides one)
Compiles(items) ==
    \A i \in DOMAIN AllFns(items) :
        AllFns(items)[i].body.kind = "call" => Defined(items, AllFns(items)[i].body.callee)

\* the function's own body, run on self with f
run_fn(fn, self, f) ==
    LET r == eval_body(fn.body.expr[1], self, f)
    IN  IF r.early THEN [kind |-> "Err", val |-> r.val, calls |-> r.calls]
        ELSE IF fn.body.ok_wrap THEN [kind |-> "Ok", val |-> r.val, calls |-> r.calls]
        ELSE [kind |-> "Value", val |-> r.val, calls |-> r.calls]

\* self.name(f) on the emitted code: a function that only calls another one on
\* self returns what that one returns
invoke(items, name, self, f) ==
    LET fn == Lookup(items, name)
    IN  IF fn.body.kind = "call"
        THEN run_fn(Lookup(items, fn.body.callee), self, f)
        ELSE run_fn(fn, self, f)

-----------------------------------------------------------------------------
(* The inputs: definitions, attributes, values and functions *)

Elem == 0..(NumElem - 1)

\* definitions after those of tests/integration.rs (struct_simple; struct_tuple_2
\* with the second field of struct_option; struct_array_2 with the inner tuple
\* dropped; enum_simple_mixed) and definitions with several generic parameters,
\* bounds, a marker, a keyed container, nesting and a type the analyzer does not know
Definitions == {
    [ident |-> "StructSimple",
     generics |-> <<TypeParam("A", <<>>)>>,
     data |-> Struct(<<Field("field_1", Ty("A")), Field("field_2", Ty("u32"))>>)],
    [ident |-> "StructTuple",
     generics |-> <<TypeParam("A", <<>>)>>,
     data |-> Struct(<<Field("field_1", Tuple(<<Path("Vec", <<Ty("A")>>), Ty("u8"), Ty("A")>>)),
                       Field("field_2", Path("Option", <<Ty("A")>>))>>)],
    [ident |-> "StructArray",
     generics |-> <<TypeParam("A", <<"Clone">>)>>,
     data |-> Struct(<<Field("field_1", Array(Path("Vec", <<Ty("A")>>), 2)),
                       Field("field_2", Ty("u8"))>>)],
    [ident |-> "StructNested",
     generics |-> <<LifetimeParam("a"), TypeParam("A", <<>>)>>,
     data |-> Struct(<<Field("field_1",
                 Path("Option", <<Tuple(<<Ty("A"), Path("VecDeque", <<Paren(Ty("A"))>>)>>)>>)),
                       Field("field_2", Path("Wrapper", <<Ty("A")>>))>>)],
    [ident |-> "EnumMixed",
     generics |-> <<TypeParam("A", <<>>)>>,
     data |-> Enum(<<Variant("Var1", "named", <<Field("x", Ty("A"))>>),
                     Variant("Var2", "tuple", <<Field("0", Ty("bool"))>>),
                     Variant("Var3", "unit", <<>>)>>)],
    [ident |-> "StructPair",
     generics |-> <<LifetimeParam("a"), TypeParam("A", <<>>), TypeParam("B", <<"Clone">>),
                    ConstParam("N")>>,
     data |-> Struct(<<Field("first", Ty("B")),
                       Field("second", Ty("A")),
                       Field("third", Path("PhantomData", <<Ty("A")>>)),
                       Field("fourth", Path("HashMap", <<Ty("u8"), Ty("B")>>))>>)],
    [ident |-> "EnumTwo",
     generics |-> <<TypeParam("B", <<>>), ConstParam("N"), TypeParam("A", <<"Clone", "Default">>)>>,
     data |-> Enum(<<Variant("Left", "tuple", <<Field("0", Ty("A")), Field("1", Ty("B"))>>),
                     Variant("Right", "named", <<Field("b", Paren(Ty("B"))),
                                                  Field("a", Array(Ty("A"), 2))>>),
                     Variant("Unit", "unit", <<>>)>>)] }

\* the identifiers an attribute can name: the parameters of the definitions, by
\* any kind, and one that no definition declares
RequestedParams == {"A", "B", "N", "a", "Z"}
Suffixes == {"a", "b"}

SeqsOf(S, lo, hi) == UNION {[1..n -> S] : n \in lo..hi}

\* functor_param::Attribute
Single(param) == [kind |-> "Single", param |-> param, params |-> <<>>]
Many(params) == [kind |-> "Many", param |-> "", params |-> params]

Attributes ==
    {Single(p) : p \in RequestedParams}
    \cup {Many(ps) : ps \in SeqsOf(RequestedParams \X Suffixes, 1, MaxRequested)}

RECURSIVE Values(_)
RECURSIVE TupleValues(_, _)
\* the values of a declared type, whatever the type parameters stand for
Values(ty) ==
    CASE ty.t = "paren" -> Values(ty.args[1])
      [] ty.t = "tuple" -> TupleValues(ty.args, 1)
      [] ty.t = "array" -> [1..ty.n -> Values(ty.args[1])]
      [] ty.t = "path" /\ ty.name = "PhantomData" -> {<<>>}
      [] ty.t = "path" /\ ty.name = "Option" -> SeqsOf(Values(ty.args[1]), 0, 1)
      [] ty.t = "path" /\ ty.name = "Box" -> SeqsOf(Values(ty.args[1]), 1, 1)
      [] ty.t = "path" /\ ty.name \in {"Vec", "VecDeque"} ->
            SeqsOf(Values(ty.args[1]), 0, MaxVecLen)
      [] ty.t = "path" /\ ty.name = "HashMap" ->
            {m \in SeqsOf(Values(ty.args[1]) \X Values(ty.args[2]), 0, MaxVecLen) :
                \A i, j \in DOMAIN m : i # j => m[i][1] # m[j][1]}
      [] OTHER -> Elem

TupleValues(tys, i) ==
    IF i > Len(tys) THEN {<<>>}
    ELSE {<<h>> \o t : h \in Values(tys[i]), t \in TupleValues(tys, i + 1)}

\* the values of the variant v of a definition
ValuesOf(data, v) ==
    {Value(v, fs) : fs \in TupleValues([k \in DOMAIN data.variants[v].fields |->
                                            data.variants[v].fields[k].ty], 1)}

\* the total functions supplied: the identity, a shift and a constant
TotalFns == {[x \in Elem |-> x], [x \in Elem |-> x + 1], [x \in Elem |-> 0]}

\* the error a failing function returns for the argument x
ErrorOf(x) == 100 + x

\* x -> Ok(g(x))
Lift(g) == [x \in Elem |-> [ok |-> TRUE, v |-> g[x]]]

\* the fallible functions supplied: a total function that fails on some arguments
FallibleFns ==
    {[x \in Elem |-> IF x \in F THEN [ok |-> FALSE, v |-> ErrorOf(x)]
                                ELSE [ok |-> TRUE, v |-> g[x]]]
        : g \in TotalFns, F \in SUBSET Elem}

-----------------------------------------------------------------------------
(* derive: the entry point of the macro *)

Pending == [kind |-> "pending", items |-> <<>>, diag |-> <<>>]
Emitted(items) == [kind |-> "tokens", items |-> items, diag |-> <<>>]
\* abort_call_site! ends the expansion: the macro's output is the diagnostic alone
CompileError(diag) == [kind |-> "compile_error", items |-> <<>>, diag |-> diag]

NoCall == [made |-> FALSE, name |-> "", fallible |-> FALSE, self |-> <<>>, f |-> <<>>,
           result |-> <<>>]

Init ==
    /\ input \in Definitions
    /\ attr \in Attributes
    /\ pc = "start"
    /\ idx = 0
    /\ tokens = <<>>
    /\ output = Pending
    /\ call = NoCall

\* the tokens of the Many arm with the new item put before the earlier ones
extend_front(ts, item) == item \o ts

\* lib.rs 27: tokens.extend(..)
extend(ts, item) == ts \o item

\* lib.rs 23: Attribute::Single(functor_param) => generate_impl(.., None)
DeriveSingle ==
    /\ pc = "start"
    /\ attr.kind = "Single"
    /\ LET r == generate_impl(input, input.ident, attr.param, None)
       IN  IF r.abort
           THEN pc' = "aborted" /\ output' = CompileError(r.diag)
           ELSE pc' = "done" /\ output' = Emitted(r.item)
    /\ UNCHANGED <<input, attr, idx, tokens, call>>

\* lib.rs 24-25: Attribute::Many(params) => let mut tokens = TokenStream::new()
DeriveManyStart ==
    /\ pc = "start"
    /\ attr.kind = "Many"
    /\ pc' = "loop"
    /\ idx' = 0
    /\ tokens' = <<>>
    /\ UNCHANGED <<input, attr, output, call>>

\* lib.rs 26-28: one iteration of the loop over params
DeriveManyStep ==
    /\ pc = "loop"
    /\ idx < Len(attr.params)
    /\ LET functor_param == attr.params[idx + 1][1]
           name_suffix == attr.params[idx + 1][2]
           r == generate_impl(input, input.ident, functor_param, Some(name_suffix))
       IN  IF r.abort
           THEN /\ pc' = "aborted"
                /\ output' = CompileError(r.diag)
                /\ UNCHANGED <<idx, tokens>>
           ELSE /\ tokens' = extend(tokens, r.item)
                /\ idx' = idx + 1
                /\ UNCHANGED <<pc, output>>
    /\ UNCHANGED <<input, attr, call>>

\* lib.rs 29: the Many arm evaluates to tokens
DeriveManyReturn ==
    /\ pc = "loop"
    /\ idx = Len(attr.params)
    /\ pc' = "done"
    /\ output' = Emitted(tokens)
    /\ UNCHANGED <<input, attr, idx, tokens, call>>

\* a caller applies one of the emitted functions to a value of the definition
Call ==
    /\ pc = "done"
    /\ Compiles(output.items)
    /\ \E i \in DOMAIN AllFns(output.items) :
         LET fn == AllFns(output.items)[i]
         IN  \E v \in DOMAIN input.data.variants :
             \E self \in ValuesOf(input.data, v) :
               \E f \in (IF fn.fallible THEN FallibleFns ELSE TotalFns) :
                  call' = [made |-> TRUE, name |-> fn.name, fallible |-> fn.fallible,
                           self |-> self, f |-> f,
                           result |-> invoke(output.items, fn.name, self, f)]
    /\ pc' = "called"
    /\ UNCHANGED <<input, attr, idx, tokens, output>>

Next ==
    \/ DeriveSingle
    \/ DeriveManyStart
    \/ DeriveManyStep
    \/ DeriveManyReturn
    \/ Call

Spec == Init /\ [][Next]_vars

-----------------------------------------------------------------------------
(* Properties of the generation *)

\* the (parameter, name suffix) of every generation pass asked for, in order
Requests ==
    IF attr.kind = "Single" THEN << <<attr.param, None>> >>
    ELSE [k \in DOMAIN attr.params |-> <<attr.params[k][1], Some(attr.params[k][2])>>]

\* the items the passes made so far have produced, one per pass, in order
Passes == IF attr.kind = "Many" THEN tokens ELSE output.items

DeclaredTypeParams ==
    {input.generics[i].ident : i \in {j \in DOMAIN input.generics : input.generics[j].kind = "Type"}}

\* the bounds written on the declared type parameter p
BoundsOf(p) ==
    input.generics[CHOOSE i \in DOMAIN input.generics :
                      input.generics[i].kind = "Type" /\ input.generics[i].ident = p].bounds

\* the suffix text appended to the names of pass k
SuffixText(k) == IF Requests[k][2] = None THEN "" ELSE "_" \o Requests[k][2][1]

FnNames(item) == [j \in DOMAIN item.fns |-> item.fns[j].name]

\* what pass k emitted is one of the two forms, complete: the two functions of the
\* trait, or the four suffixed functions with the parameter's bounds on __B
C1_FormComplete(k) ==
    IF Passes[k].kind = "trait_impl"
    THEN /\ Passes[k].trait = <<"Functor", Requests[k][1]>>
         /\ FnNames(Passes[k]) = <<"fmap_ref", "try_fmap_ref">>
    ELSE /\ Passes[k].kind = "inherent_impl"
         /\ FnNames(Passes[k]) = <<"fmap" \o SuffixText(k), "fmap_ref" \o SuffixText(k),
                                   "try_fmap" \o SuffixText(k), "try_fmap_ref" \o SuffixText(k)>>
         /\ \A j \in DOMAIN Passes[k].fns :
               Passes[k].fns[j].B_bounds = BoundsOf(Requests[k][1])

\* one item per pass, never two
C1_OneFormPerPass ==
    /\ Len(Passes) <= Len(Requests)
    /\ pc \in {"done", "called"} => Len(Passes) = Len(Requests)

MissingAt == {k \in DOMAIN Requests : Requests[k][1] \notin DeclaredTypeParams}

Names(diag, x) == \E i \in DOMAIN diag : diag[i] = x

\* C2: when a requested parameter is not a declared type parameter the generation
\* aborts with a diagnostic naming the first such parameter and the subject type,
\* and the macro emits no generated item, also when earlier passes have built some.
C2_AbortEmitsNothing ==
    /\ MissingAt # {} =>
        /\ pc \notin {"done", "called"}
        /\ output.kind # "tokens"
        /\ output.items = <<>>
        /\ pc = "aborted" =>
              /\ output.kind = "compile_error"
              /\ Names(output.diag, Requests[Min(MissingAt)][1])
              /\ Names(output.diag, input.ident)
    /\ pc = "aborted" => MissingAt # {}

\* the second pass of a list aborted after the first had built its item
C2_Witness ==
    /\ pc = "aborted"
    /\ attr.kind = "Many"
    /\ Len(tokens) = 1
    /\ output.items = <<>>

\* the generic arguments of the declared output type for the target p
ExpectedTargetArgs(p) ==
    [i \in DOMAIN input.generics |->
        IF input.generics[i].kind = "Type" /\ input.generics[i].ident = p
        THEN [kind |-> "Type", ident |-> "__B"]
        ELSE [kind |-> input.generics[i].kind, ident |-> input.generics[i].ident]]

\* C3: the declared output type of every generated function is the subject type
\* applied to its own generic parameters in order, with __B at the position of the
\* target type parameter and every other argument as in the source; the replaced
\* position is never a lifetime or a const.
C3_OutputType ==
    \A k \in DOMAIN Passes :
        /\ \A j \in DOMAIN Passes[k].fns :
              /\ Passes[k].fns[j].ret.name = input.ident
              /\ Passes[k].fns[j].ret.args = ExpectedTargetArgs(Requests[k][1])
        /\ Passes[k].kind = "trait_impl" =>
              Passes[k].assoc_target = <<Applied(input.ident, ExpectedTargetArgs(Requests[k][1]))>>
        /\ \A i \in DOMAIN input.generics :
              input.generics[i].kind # "Type" =>
                 Passes[k].fns[1].ret.args[i] = Passes[k].self_ty.args[i]

\* a definition with a lifetime, two type parameters and a const has been generated
\* for its second type parameter
C3_Witness ==
    /\ pc = "done"
    /\ input.ident = "StructPair"
    /\ attr = Single("B")
    /\ output.items # <<>>

BaseNames == {"fmap", "fmap_ref", "try_fmap", "try_fmap_ref"}

\* C8: the output for a list of pairs is the concatenation, in list order, of what
\* one pass produces for each pair alone, each pass's functions carrying its suffix.
C8_Concatenation ==
    attr.kind = "Many" =>
        /\ tokens = Flatten([k \in 1..idx |->
                generate_impl(input, input.ident, attr.params[k][1],
                              Some(attr.params[k][2])).item])
        /\ pc \in {"done", "called"} =>
              /\ idx = Len(attr.params)
              /\ output.items = tokens
        /\ \A k \in DOMAIN tokens : \A j \in DOMAIN tokens[k].fns :
              tokens[k].fns[j].name \in {b \o "_" \o attr.params[k][2] : b \in BaseNames}

\* a list of two different pairs has been generated
C8_Witness ==
    /\ pc = "done"
    /\ attr.kind = "Many"
    /\ Len(output.items) = 2
    /\ attr.params[1] # attr.params[2]
    /\ output.items[1] # output.items[2]

\* C10: in the free-standing form the owning functions call the reference functions
\* of the same pass, with the same suffix: every name called is a name the pass defines.
C10_DelegatesWithinPass ==
    \A k \in DOMAIN Passes :
        Passes[k].kind = "inherent_impl" =>
            \A j \in DOMAIN Passes[k].fns :
                LET fn == Passes[k].fns[j]
                IN  fn.body.kind = "call" =>
                       /\ \E m \in DOMAIN Passes[k].fns : Passes[k].fns[m].name = fn.body.callee
                       /\ fn.name = "fmap" \o SuffixText(k) =>
                             fn.body.callee = "fmap_ref" \o SuffixText(k)
                       /\ fn.name = "try_fmap" \o SuffixText(k) =>
                             fn.body.callee = "try_fmap_ref" \o SuffixText(k)

-----------------------------------------------------------------------------
(* Properties of the generated code *)

RECURSIVE Occurrences(_, _, _)
\* the values of the parameter p held by the value v of the declared type ty, in
\* the order they are written in: components left to right, elements by index
Occurrences(ty, v, p) ==
    CASE ty.t = "path" /\ ty.args = <<>> /\ ty.name = p -> <<v>>
      [] ty.t = "paren" -> Occurrences(ty.args[1], v, p)
      [] ty.t = "tuple" -> Flatten([i \in DOMAIN ty.args |-> Occurrences(ty.args[i], v[i], p)])
      [] ty.t = "array" -> Flatten([i \in DOMAIN v |-> Occurrences(ty.args[1], v[i], p)])
      [] ty.t = "path" /\ ty.name \in SingleArgContainers /\ Len(ty.args) = 1 ->
            Flatten([i \in DOMAIN v |-> Occurrences(ty.args[1], v[i], p)])
      [] ty.t = "path" /\ ty.name \in KeyedContainers /\ Len(ty.args) = 2 ->
            Flatten([i \in DOMAIN v |-> Occurrences(ty.args[2], v[i][2], p)])
      [] OTHER -> <<>>

RECURSIVE Replaced(_, _, _, _)
\* the value v of the declared type ty with g applied to every value of p it holds
Replaced(ty, v, p, g) ==
    CASE ty.t = "path" /\ ty.args = <<>> /\ ty.name = p -> g[v]
      [] ty.t = "paren" -> Replaced(ty.args[1], v, p, g)
      [] ty.t = "tuple" -> [i \in DOMAIN ty.args |-> Replaced(ty.args[i], v[i], p, g)]
      [] ty.t = "array" -> [i \in DOMAIN v |-> Replaced(ty.args[1], v[i], p, g)]
      [] ty.t = "path" /\ ty.name \in SingleArgContainers /\ Len(ty.args) = 1 ->
            [i \in DOMAIN v |-> Replaced(ty.args[1], v[i], p, g)]
      [] ty.t = "path" /\ ty.name \in KeyedContainers /\ Len(ty.args) = 2 ->
            [i \in DOMAIN v |-> <<v[i][1], Replaced(ty.args[2], v[i][2], p, g)>>]
      [] OTHER -> v

\* the declared types of the fields of self's variant
FieldTypes(self) ==
    [k \in DOMAIN input.data.variants[self.variant].fields |->
        input.data.variants[self.variant].fields[k].ty]

\* the occurrences of p in self: field by field in declaration order
OccurrencesIn(self, p) ==
    Flatten([k \in DOMAIN self.fields |-> Occurrences(FieldTypes(self)[k], self.fields[k], p)])

\* the target parameter of the function called
CalledTarget == Lookup(output.items, call.name).f_arg

\* the successful part of the function called: for a fallible function, the
\* values it returns inside Ok
Plain(f, fallible) == IF fallible THEN [x \in DOMAIN f |-> f[x].v] ELSE f

Succeeded == call.made /\ call.result.kind \in {"Value", "Ok"}

\* the positions, in the order of the occurrences, at which the function called fails
FailingAt == {i \in DOMAIN OccurrencesIn(call.self, CalledTarget) :
                 ~call.f[OccurrencesIn(call.self, CalledTarget)[i]].ok}

\* C4: the fallible transform applies the function to the occurrences of the target
\* in field declaration order and left to right within a field; on a failure it
\* returns the error of the first failing occurrence, has applied the function to
\* no later occurrence, and returns no rebuilt value.
C4_FirstErrorInOrder ==
    (call.made /\ call.fallible) =>
        IF FailingAt = {}
        THEN /\ call.result.kind = "Ok"
             /\ call.result.calls = OccurrencesIn(call.self, CalledTarget)
        ELSE /\ call.result.kind = "Err"
             /\ call.result.calls =
                   SubSeq(OccurrencesIn(call.self, CalledTarget), 1, Min(FailingAt))
             /\ call.result.val =
                   call.f[OccurrencesIn(call.self, CalledTarget)[Min(FailingAt)]].v

\* the function succeeded on the first occurrence and failed on the second of
\* three, which lie in two fields
C4_Witness ==
    /\ call.made
    /\ call.fallible
    /\ call.result.kind = "Err"
    /\ Len(call.result.calls) = 2
    /\ Len(OccurrencesIn(call.self, CalledTarget)) = 3
    /\ Min(FailingAt) = 2

\* C5: a field whose declared type does not contain the target parameter has the
\* same value in the result of the total transform, and in the successful result of
\* the fallible one, and the function is applied to the occurrences of the target only.
C5_PassThrough ==
    Succeeded =>
        /\ \A k \in DOMAIN call.self.fields :
              ~contains_param(FieldTypes(call.self)[k], CalledTarget) =>
                 call.result.val.fields[k] = call.self.fields[k]
        /\ call.result.calls = OccurrencesIn(call.self, CalledTarget)

\* a value with a field of another type parameter was transformed by a function
\* that would have changed that field
C5_Witness ==
    /\ Succeeded
    /\ input.ident = "StructPair"
    /\ CalledTarget = "A"
    /\ call.result.val.fields[2] # call.self.fields[2]
    /\ Plain(call.f, call.fallible)[call.self.fields[1]] # call.self.fields[1]

\* C6: the transform of an enum value returns the same variant with the same fields
\* in order, the function applied to the occurrences of the target and to nothing
\* else; a variant without fields is returned as it is without a call of the
\* function, and nothing of another variant is evaluated.
C6_SameVariant ==
    (Succeeded /\ input.data.kind = "enum") =>
        /\ call.result.val.variant = call.self.variant
        /\ DOMAIN call.result.val.fields = DOMAIN call.self.fields
        /\ \A k \in DOMAIN call.self.fields :
              call.result.val.fields[k] =
                 Replaced(FieldTypes(call.self)[k], call.self.fields[k], CalledTarget,
                          Plain(call.f, call.fallible))
        /\ call.result.calls = OccurrencesIn(call.self, CalledTarget)
        /\ call.self.fields = <<>> =>
              call.result.val = call.self /\ call.result.calls = <<>>

\* a value of the second variant of an enum with two type parameters was changed
C6_Witness ==
    /\ Succeeded
    /\ input.ident = "EnumTwo"
    /\ call.self.variant = 2
    /\ call.result.val.variant = 2
    /\ call.result.val.fields # call.self.fields

\* C7: the total transform applied with the identity function returns its input.
C7_Identity ==
    (call.made /\ ~call.fallible /\ call.f = [x \in Elem |-> x]) =>
        /\ call.result.kind = "Value"
        /\ call.result.val = call.self

\* the identity was applied to the elements of the collections in an array
C7_Witness ==
    /\ call.made
    /\ ~call.fallible
    /\ call.f = [x \in Elem |-> x]
    /\ input.ident = "StructArray"
    /\ Len(call.result.calls) >= 2
    /\ call.result.calls[1] # call.result.calls[2]

\* the total function of the same impl block that takes the function the same way
TotalCounterpart(name) ==
    LET fns == AllFns(output.items)
        fn == Lookup(output.items, name)
    IN  fns[Min({i \in DOMAIN fns :
                    /\ ~fns[i].fallible
                    /\ fns[i].by_ref = fn.by_ref
                    /\ fns[i].f_arg = fn.f_arg})].name

\* C9: the fallible transform applied with x -> Ok(g(x)) returns Ok of what the total
\* transform returns for g, with the same applications in the same order; the
\* fallible transform returns Ok only if the function succeeded on every occurrence.
C9_FallibleRefinesTotal ==
    (call.made /\ call.fallible) =>
        /\ call.result.kind = "Ok" =>
              \A i \in DOMAIN OccurrencesIn(call.self, CalledTarget) :
                  call.f[OccurrencesIn(call.self, CalledTarget)[i]].ok
        /\ \A g \in TotalFns :
              call.f = Lift(g) =>
                 /\ call.result.kind = "Ok"
                 /\ call.result.calls =
                       invoke(output.items, TotalCounterpart(call.name), call.self, g).calls
                 /\ call.result.val =
                       invoke(output.items, TotalCounterpart(call.name), call.self, g).val

\* a never-failing function that changes values was applied to several occurrences
C9_Witness ==
    /\ call.made
    /\ call.fallible
    /\ call.f = Lift([x \in Elem |-> x + 1])
    /\ call.result.kind = "Ok"
    /\ Len(call.result.calls) >= 2

=============================================================================
